---- MODULE Spec2Model ----
(***************************************************************************)
(* kaeru: conversion of loosely typed data (the value tree a JSON decoder  *)
(* produces, or any Go value built from primitives, slices and maps) into  *)
(* typed Go values, driven by reflection over the target type and by the   *)
(* Parse<kind> hooks the target type implements (src/kaeru.go).            *)
(*                                                                         *)
(* A Go type is a descriptor record, a Go value a record carrying its      *)
(* dynamic type.  Parse is a pure recursive descent, so each operation of  *)
(* kaeru.go is an operator that returns the outcome of the call: the       *)
(* error, the target afterwards, the hooks invoked (in order) and whether  *)
(* the call panicked.                                                      *)
(***************************************************************************)
EXTENDS Integers, Sequences, FiniteSets, TLC

VARIABLES
    input,      \* the `input any` argument of Parse
    outType,    \* static type T of the target (output is a *T)
    outMode,    \* what the caller passed as `output`: "ptr", "nilptr", "value"
    out,        \* the target value *output
    before,     \* the target value when Parse was called
    err,        \* the error Parse returned (<<>> is nil)
    calls,      \* hooks invoked by the call, in order
    panicked,   \* the call panicked
    keyOrder,   \* the order reflect's MapKeys listed map keys in during the call
    pc          \* "ready" before the call, "done" after it

vars == <<input, outType, outMode, out, before, err, calls, panicked, keyOrder, pc>>

----------------------------------------------------------------------------
(* Bounds of the model.                                                    *)

\* longest input list
MaxLen == 3
\* capacity of the fixed-size array targets
ArrCap == 2
\* most entries of an input map
MaxKeys == 3

----------------------------------------------------------------------------
(* Go types.  kind is reflect.Kind; name is the type's name ("" for an     *)
(* unnamed composite); hooks is the method set of *T restricted to the     *)
(* names kaeru.go asserts on (plus ParseUint, which a type may declare but *)
(* kaeru.go never looks for); elem/key hold at most one descriptor.        *)

Ty(kind, name, hooks, elem, key, len, fields) ==
    [kind |-> kind, name |-> name, hooks |-> hooks, elem |-> elem,
     key |-> key, len |-> len, fields |-> fields]

Prim(k) == Ty(k, k, {}, <<>>, <<>>, 0, <<>>)
Named(name, k, hooks) == Ty(k, name, hooks, <<>>, <<>>, 0, <<>>)
AnyT == Ty("interface", "any", {}, <<>>, <<>>, 0, <<>>)
NilT == Ty("invalid", "", {}, <<>>, <<>>, 0, <<>>)
SliceOf(e) == Ty("slice", "", {}, <<e>>, <<>>, 0, <<>>)
NamedSlice(name, e, hooks) == Ty("slice", name, hooks, <<e>>, <<>>, 0, <<>>)
ArrayOf(n, e) == Ty("array", "", {}, <<e>>, <<>>, n, <<>>)
MapOf(k, e) == Ty("map", "", {}, <<e>>, <<k>>, 0, <<>>)
NamedMap(name, k, e, hooks) == Ty("map", name, hooks, <<e>>, <<k>>, 0, <<>>)
PtrTo(e) == Ty("ptr", "", {}, <<e>>, <<>>, 0, <<>>)
StructT(name, hooks, fields) == Ty("struct", name, hooks, <<>>, <<>>, 0, fields)
\* reflect.StructField: Name, Tag.Get("parse"), Type, and whether the field
\* is exported (Value.CanSet of a field of a settable struct)
Field(name, tag, type, exported) ==
    [name |-> name, tag |-> tag, type |-> type, exported |-> exported]

SignedKinds == {"int8", "int16", "int32", "int64", "int"}
UnsignedKinds == {"uint8", "uint16", "uint32", "uint64", "uint"}
FloatKinds == {"float32", "float64"}
NumericKinds == SignedKinds \cup UnsignedKinds \cup FloatKinds

\* kaeru.go:188
isPrimitive(kind) == kind \in NumericKinds \cup {"bool", "string"}

----------------------------------------------------------------------------
(* Go values.  t is the dynamic type; exactly one payload field is used,   *)
(* by kind: b (bool), n (numbers: the integer itself, or twice the value   *)
(* for the float kinds, so that 1.5 is 3), s (string), l (slice and array  *)
(* elements, struct fields in declaration order, or the pointee of a       *)
(* non-nil pointer, or the dynamic value held by an interface), m (map     *)
(* entries [k, v], k the string of the key).                               *)

V(t, b, n, s, l, m) == [t |-> t, b |-> b, n |-> n, s |-> s, l |-> l, m |-> m]
Nil == V(NilT, FALSE, 0, "", <<>>, {})
BoolV(t, b) == V(t, b, 0, "", <<>>, {})
NumV(t, n) == V(t, FALSE, n, "", <<>>, {})
StrV(t, s) == V(t, FALSE, 0, s, <<>>, {})
SeqV(t, l) == V(t, FALSE, 0, "", l, {})
MapV(t, m) == V(t, FALSE, 0, "", <<>>, m)

IsNil(v) == v.t.kind = "invalid"

\* reflect.Zero of a type
RECURSIVE Zero(_)
Zero(ty) ==
    CASE ty.kind = "bool" -> BoolV(ty, FALSE)
      [] ty.kind \in NumericKinds -> NumV(ty, 0)
      [] ty.kind = "string" -> StrV(ty, "")
      [] ty.kind = "array" -> SeqV(ty, [i \in 1..ty.len |-> Zero(ty.elem[1])])
      [] ty.kind = "struct" ->
            SeqV(ty, [i \in 1..Len(ty.fields) |-> Zero(ty.fields[i].type)])
      [] ty.kind = "map" -> MapV(ty, {})
      [] OTHER -> SeqV(ty, <<>>)   \* nil slice, nil pointer, nil interface

----------------------------------------------------------------------------
(* reflect.Value.CanConvert / Convert, for the primitive inputs kaeru.go   *)
(* hands them (kaeru.go:223, 280-281).                                     *)

Bits(kind) ==
    CASE kind \in {"int8", "uint8"} -> 8
      [] kind \in {"int16", "uint16"} -> 16
      [] kind \in {"int32", "uint32"} -> 32
      [] OTHER -> 64

\* Two's-complement truncation to the width of an integer kind.  The values
\* of the model are in 0..2^31-1, so the 32- and 64-bit kinds keep them.
Wrap(n, kind) ==
    CASE Bits(kind) = 8 /\ kind \in SignedKinds -> ((n + 128) % 256) - 128
      [] Bits(kind) = 8 -> n % 256
      [] Bits(kind) = 16 /\ kind \in SignedKinds -> ((n + 32768) % 65536) - 32768
      [] Bits(kind) = 16 -> n % 65536
      [] OTHER -> n

\* the numeric payload of a value of kind `from`, converted to kind `to`
ConvertNum(n, from, to) ==
    CASE from \in FloatKinds /\ to \in FloatKinds -> n
      [] from \in FloatKinds -> Wrap(n \div 2, to)      \* truncates the fraction
      [] to \in FloatKinds -> 2 * n
      [] OTHER -> Wrap(n, to)

\* string(rune(n)): the one-rune string, named by its code point
RuneString(n) == "U+" \o ToString(n)

\* []byte(s) for the strings of the model
StringBytes(s) ==
    CASE s = "" -> <<>>
      [] s = "ab" -> <<97, 98>>
      [] s = "cd" -> <<99, 100>>
      [] s = "old" -> <<111, 108, 100>>
      [] s = "default" -> <<100, 101, 102, 97, 117, 108, 116>>

IsBuiltin(ty) == ty.name = ty.kind

CanConvert(inT, outT) ==
    \/ outT.kind = "interface"
    \/ inT.kind \in NumericKinds /\ outT.kind \in NumericKinds
    \/ inT.kind \in SignedKinds \cup UnsignedKinds /\ outT.kind = "string"
    \/ inT.kind = "string" /\ outT.kind = "string"
    \/ inT.kind = "bool" /\ outT.kind = "bool"
    \/ /\ inT.kind = "string" /\ outT.kind = "slice"
       /\ IsBuiltin(outT.elem[1]) /\ outT.elem[1].kind \in {"uint8", "int32"}

Convert(v, outT) ==
    CASE outT.kind = "interface" -> SeqV(outT, <<v>>)
      [] outT.kind = "bool" -> BoolV(outT, v.b)
      [] outT.kind \in NumericKinds ->
            NumV(outT, ConvertNum(v.n, v.t.kind, outT.kind))
      [] outT.kind = "string" /\ v.t.kind = "string" -> StrV(outT, v.s)
      [] outT.kind = "string" -> StrV(outT, RuneString(v.n))
      [] outT.kind = "slice" ->
            SeqV(outT, [i \in 1..Len(StringBytes(v.s)) |->
                            NumV(outT.elem[1], StringBytes(v.s)[i])])

----------------------------------------------------------------------------
(* The outcome of a (nested) conversion.                                   *)

\* err: the error chain, outermost wrapping first; <<>> is a nil error
Res(e, val, cs, p) == [err |-> e, val |-> val, calls |-> cs, panic |-> p]
Ok(val, cs) == Res(<<>>, val, cs, FALSE)
Panic(val, cs) == Res(<<>>, val, cs, TRUE)
\* errors.New(msg)
Msg(msg) == [ctx |-> "msg", at |-> msg]
\* fmt.Errorf("error parsing <ctx> <at>: %w", err)
WrapErr(ctx, at, e) == <<[ctx |-> ctx, at |-> at]>> \o e
\* one hook invocation: the method, the place of the receiver in the target
\* (field names and indices from the root) and the argument
Call(hook, path, arg) == [hook |-> hook, path |-> path, arg |-> arg]

----------------------------------------------------------------------------
(* The hooks are the caller's code.  They are modelled on the hooks of     *)
(* kaeru_test.go and the README: a hook validates its argument, returns an *)
(* error without touching the receiver when it rejects it, and otherwise   *)
(* stores the argument converted to the receiver's type, as Username's    *)
(* ParseString and Upvotes' ParseFloat64 do.  A hook rejects the empty     *)
(* value of its kind: "", 0, the empty list, the empty map.                *)

Rejects(arg) ==
    CASE arg.t.kind = "string" -> arg.s = ""
      [] arg.t.kind \in NumericKinds -> arg.n = 0
      [] arg.t.kind = "slice" -> arg.l = <<>>
      [] arg.t.kind = "map" -> arg.m = {}
      [] OTHER -> FALSE

HookStore(ty, cur, arg) ==
    IF isPrimitive(arg.t.kind) /\ isPrimitive(ty.kind) /\ CanConvert(arg.t, ty)
    THEN Convert(arg, ty) ELSE cur

Invoke(hook, ty, cur, arg, path) ==
    IF Rejects(arg)
    THEN Res(<<Msg("rejected by hook")>>, cur, <<Call(hook, path, arg)>>, FALSE)
    ELSE Ok(HookStore(ty, cur, arg), <<Call(hook, path, arg)>>)

\* SetDefault(): stores the type's default
DefaultOf(ty, cur) ==
    CASE ty.kind = "string" -> StrV(ty, "default")
      [] ty.kind \in NumericKinds -> NumV(ty, 10)
      [] ty.kind = "bool" -> BoolV(ty, TRUE)
      [] OTHER -> cur

InvokeSetDefault(ty, cur, path) ==
    Ok(DefaultOf(ty, cur), <<Call("SetDefault", path, Nil)>>)

----------------------------------------------------------------------------
(* The conversion engine, kaeru.go:124-470.  Every operator takes the      *)
(* input reflect.Value, the target's type and current value, the path of   *)
(* the target from the root, and ord: the order in which reflect's MapKeys *)
(* lists keys (unspecified by Go, so chosen by the environment).           *)

RECURSIVE parseValue(_, _, _, _, _)
RECURSIVE parseNonNil(_, _, _, _, _)
RECURSIVE parseMap(_, _, _, _, _)
RECURSIVE parseMapToStruct(_, _, _, _, _)
RECURSIVE structFields(_, _, _, _, _, _)
RECURSIVE structFields_KeepGoing(_, _, _, _, _, _)
RECURSIVE parseMapToMap(_, _, _, _, _)
RECURSIVE mapEntries(_, _, _, _, _, _, _, _, _)
RECURSIVE parseSlice(_, _, _, _, _)
RECURSIVE parseSliceToSlice(_, _, _, _, _)
RECURSIVE sliceElems(_, _, _, _, _, _, _, _)
RECURSIVE parseSliceToArray(_, _, _, _, _)
RECURSIVE arrayElems(_, _, _, _, _, _)

StringT == Prim("string")
MapStringString == MapOf(StringT, StringT)
MapStringAny == MapOf(StringT, AnyT)
SliceString == SliceOf(StringT)
SliceAny == SliceOf(AnyT)

\* the type assertion outVal.Addr().Interface().(hook)
Implements(T, hook) == hook \in T.hooks

\* reflect.Value.MapIndex: the zero Value when the key is missing
MapIndex(v, key) ==
    IF \E e \in v.m : e.k = key
    THEN (CHOOSE e \in v.m : e.k = key).v
    ELSE Nil

\* reflect.Value.MapKeys, in the order ord gives
MapKeys(v, ord) ==
    LET Present(k) == \E e \in v.m : e.k = k
    IN  SelectSeq(ord, Present)

\* reflect.Value.SetMapIndex
SetMapIndex(m, k, val) == {e \in m : e.k # k} \cup {[k |-> k, v |-> val]}

\* parseNil with the required test ahead of the SetDefault test
parseNil_RequiredFirst(T, c, required, path) ==
    IF required THEN Res(<<Msg("inVal is nil but must be set")>>, c, <<>>, FALSE)
    ELSE IF Implements(T, "SetDefault") THEN InvokeSetDefault(T, c, path)
    ELSE Ok(c, <<>>)

\* kaeru.go:154-162: the input is absent
parseNil(T, c, required, path) ==
    IF Implements(T, "SetDefault") THEN InvokeSetDefault(T, c, path)
    ELSE IF required THEN Res(<<Msg("inVal is nil but must be set")>>, c, <<>>, FALSE)
    ELSE Ok(c, <<>>)

\* kaeru.go:216-278: the hooks the switch tries for an input kind, in the
\* order of the case and its fallthroughs
HookChain(kind) ==
    CASE kind = "string" -> <<"ParseString">>
      [] kind = "int8" ->
            <<"ParseInt8", "ParseInt16", "ParseInt32", "ParseInt64", "ParseInt">>
      [] kind = "int16" -> <<"ParseInt16", "ParseInt32", "ParseInt64", "ParseInt">>
      [] kind = "int32" -> <<"ParseInt32", "ParseInt64", "ParseInt">>
      [] kind = "int64" -> <<"ParseInt64", "ParseInt">>
      [] kind = "int" -> <<"ParseInt">>
      [] kind = "uint8" -> <<"ParseUint8", "ParseUint16", "ParseUint32", "ParseUint64">>
      [] kind = "uint16" -> <<"ParseUint16", "ParseUint32", "ParseUint64">>
      [] kind = "uint32" -> <<"ParseUint32", "ParseUint64">>
      [] kind = "uint64" -> <<"ParseUint64">>
      [] kind = "float32" -> <<"ParseFloat32", "ParseFloat64">>
      [] kind = "float64" -> <<"ParseFloat64">>
      [] OTHER -> <<>>          \* bool, uint

\* the parameter type of a primitive hook (kaeru.go:18-64)
HookParam(hook) ==
    CASE hook = "ParseString" -> "string"
      [] hook = "ParseInt" -> "int"
      [] hook = "ParseInt8" -> "int8"
      [] hook = "ParseInt16" -> "int16"
      [] hook = "ParseInt32" -> "int32"
      [] hook = "ParseInt64" -> "int64"
      [] hook = "ParseUint8" -> "uint8"
      [] hook = "ParseUint16" -> "uint16"
      [] hook = "ParseUint32" -> "uint32"
      [] hook = "ParseUint64" -> "uint64"
      [] hook = "ParseFloat32" -> "float32"
      [] hook = "ParseFloat64" -> "float64"

\* kaeru.go:211-286
parsePrimitive(v, T, c, path) ==
    LET Has(h) == Implements(T, h)
        found == SelectSeq(HookChain(v.t.kind), Has)
    IN  IF found # <<>>
        THEN Invoke(found[1], T, c, Convert(v, Prim(HookParam(found[1]))), path)
        ELSE IF v.t.kind = "bool" /\ T.kind = "bool" THEN Ok(Convert(v, T), <<>>)
        ELSE IF CanConvert(v.t, T) THEN Ok(Convert(v, T), <<>>)
        ELSE Res(<<Msg("inVal is not parseable to outVal")>>, c, <<>>, FALSE)

\* structFields going on to the remaining fields after a field's error, and
\* returning the first error at the end
structFields_KeepGoing(v, T, path, ord, i, acc) ==
    IF i > Len(T.fields) THEN acc
    ELSE
      LET f == T.fields[i]
          fieldName == IF f.tag # "" THEN f.tag ELSE f.name
      IN  IF ~f.exported THEN structFields_KeepGoing(v, T, path, ord, i + 1, acc)
          ELSE IF v.t.key[1] # StringT
          THEN Panic(acc.val, acc.calls)
          ELSE
            LET r == parseValue(MapIndex(v, fieldName), f.type, acc.val.l[i],
                                Append(path, f.name), ord)
                val == SeqV(T, [acc.val.l EXCEPT ![i] = r.val])
                cs == acc.calls \o r.calls
                e == IF acc.err # <<>> THEN acc.err
                     ELSE IF r.err # <<>> THEN WrapErr("field", fieldName, r.err)
                     ELSE <<>>
            IN  IF r.panic THEN Panic(val, cs)
                ELSE structFields_KeepGoing(v, T, path, ord, i + 1,
                                            Res(e, val, cs, FALSE))

\* kaeru.go:334-357: the loop over the fields, from field i on; acc is the
\* outcome so far
structFields(v, T, path, ord, i, acc) ==
    IF i > Len(T.fields) THEN acc
    ELSE
      LET f == T.fields[i]
          fieldName == IF f.tag # "" THEN f.tag ELSE f.name
      IN  IF ~f.exported THEN structFields(v, T, path, ord, i + 1, acc)
          ELSE IF v.t.key[1] # StringT
          THEN Panic(acc.val, acc.calls)   \* MapIndex with a key of another type
          ELSE
            LET r == parseValue(MapIndex(v, fieldName), f.type, acc.val.l[i],
                                Append(path, f.name), ord)
                val == SeqV(T, [acc.val.l EXCEPT ![i] = r.val])
                cs == acc.calls \o r.calls
            IN  IF r.panic THEN Panic(val, cs)
                ELSE IF r.err # <<>>
                THEN Res(WrapErr("field", fieldName, r.err), val, cs, FALSE)
                ELSE structFields(v, T, path, ord, i + 1, Ok(val, cs))

\* kaeru.go:324-360
parseMapToStruct(v, T, c, path, ord) ==
    structFields(v, T, path, ord, 1, Ok(c, <<>>))

\* kaeru.go:302-317: the loop over the input's keys, from keys[i] on; outMap
\* is the fresh map so far, cs the hooks invoked so far
mapEntries(v, T, c, path, ord, keys, i, outMap, cs) ==
    IF i > Len(keys) THEN Ok(MapV(T, outMap), cs)     \* outVal.Set(outMap)
    ELSE
      LET inKey == StrV(v.t.key[1], keys[i])
          rk == parseValue(inKey, T.key[1], Zero(T.key[1]),
                           path \o <<keys[i], "(key)">>, ord)
          rv == parseValue(MapIndex(v, keys[i]), T.elem[1], Zero(T.elem[1]),
                           Append(path, keys[i]), ord)
      IN  IF rk.panic THEN Panic(c, cs \o rk.calls)
          ELSE IF rk.err # <<>>
          THEN Res(WrapErr("map key", keys[i], rk.err), c, cs \o rk.calls, FALSE)
          ELSE IF rv.panic THEN Panic(c, cs \o rk.calls \o rv.calls)
          ELSE IF rv.err # <<>>
          THEN Res(WrapErr("map value", "(value)", rv.err), c,
                   cs \o rk.calls \o rv.calls, FALSE)
          ELSE mapEntries(v, T, c, path, ord, keys, i + 1,
                          SetMapIndex(outMap, rk.val.s, rv.val),
                          cs \o rk.calls \o rv.calls)

\* parseMapToMap filling the target's own entries instead of a fresh map
parseMapToMap_Merge(v, T, c, path, ord) ==
    mapEntries(v, T, c, path, ord, MapKeys(v, ord), 1, c.m, <<>>)

\* kaeru.go:288-322
parseMapToMap(v, T, c, path, ord) ==
    mapEntries(v, T, c, path, ord, MapKeys(v, ord), 1, {}, <<>>)

\* kaeru.go:362-388
parseMap(v, T, c, path, ord) ==
    IF v.t = MapStringString /\ Implements(T, "ParseStringMap")
    THEN Invoke("ParseStringMap", T, c, v, path)
    ELSE IF v.t = MapStringAny /\ Implements(T, "ParseMap")
    THEN Invoke("ParseMap", T, c, v, path)
    ELSE IF T.kind = "struct" THEN parseMapToStruct(v, T, c, path, ord)
    ELSE IF T.kind = "map" THEN parseMapToMap(v, T, c, path, ord)
    ELSE Res(<<Msg("inVal is not parseable to outVal")>>, c, <<>>, FALSE)

\* kaeru.go:400-405: the loop over the elements, from index i on (1-based);
\* outSlice is the fresh slice so far
sliceElems(v, T, c, path, ord, i, outSlice, cs) ==
    IF i > Len(v.l) THEN Ok(SeqV(T, outSlice), cs)    \* outVal.Set(outSlice)
    ELSE
      LET r == parseValue(v.l[i], T.elem[1], outSlice[i],
                          Append(path, ToString(i - 1)), ord)
      IN  IF r.panic THEN Panic(c, cs \o r.calls)
          ELSE IF r.err # <<>> THEN Res(r.err, c, cs \o r.calls, FALSE)
          ELSE sliceElems(v, T, c, path, ord, i + 1,
                          [outSlice EXCEPT ![i] = r.val], cs \o r.calls)

\* kaeru.go:390-409
parseSliceToSlice(v, T, c, path, ord) ==
    sliceElems(v, T, c, path, ord, 1,
               [i \in 1..Len(v.l) |-> Zero(T.elem[1])], <<>>)

\* kaeru.go:429-440: the loop over the array's slots, from slot i on
\* (1-based); the slots past the input's length get the zero reflect.Value
arrayElems(v, T, path, ord, i, acc) ==
    IF i > T.len THEN acc
    ELSE
      LET inValIndexValue == IF i <= Len(v.l) THEN v.l[i] ELSE Nil
          r == parseValue(inValIndexValue, T.elem[1], acc.val.l[i],
                          Append(path, ToString(i - 1)), ord)
          val == SeqV(T, [acc.val.l EXCEPT ![i] = r.val])
          cs == acc.calls \o r.calls
      IN  IF r.panic THEN Panic(val, cs)
          ELSE IF r.err # <<>>
          THEN Res(WrapErr("index", ToString(i - 1), r.err), val, cs, FALSE)
          ELSE arrayElems(v, T, path, ord, i + 1, Ok(val, cs))

\* parseSliceToArray with the length test after the loop instead of before it
parseSliceToArray_LateCheck(v, T, c, path, ord) ==
    LET r == arrayElems(v, T, path, ord, 1, Ok(c, <<>>))
    IN  IF r.panic \/ r.err # <<>> \/ Len(v.l) <= T.len THEN r
        ELSE Res(<<Msg("input slice is longer than output array")>>,
                 r.val, r.calls, FALSE)

\* kaeru.go:411-443
parseSliceToArray(v, T, c, path, ord) ==
    IF Len(v.l) > T.len
    THEN Res(<<Msg("input slice is longer than output array")>>, c, <<>>, FALSE)
    ELSE arrayElems(v, T, path, ord, 1, Ok(c, <<>>))

\* kaeru.go:446-470.  inVal.Interface().([]any) is an unchecked type
\* assertion: it panics when the input is a slice of another type.
parseSlice(v, T, c, path, ord) ==
    IF v.t = SliceString /\ Implements(T, "ParseStringSlice")
    THEN Invoke("ParseStringSlice", T, c, v, path)
    ELSE IF Implements(T, "ParseSlice")
    THEN IF v.t = SliceAny THEN Invoke("ParseSlice", T, c, v, path)
         ELSE Panic(c, <<>>)
    ELSE IF T.kind = "slice" THEN parseSliceToSlice(v, T, c, path, ord)
    ELSE IF T.kind = "array" THEN parseSliceToArray(v, T, c, path, ord)
    ELSE Res(<<Msg("inVal is not parseable to outVal")>>, c, <<>>, FALSE)

\* parseNonNil without the identity fast path
parseNonNil_NoIdentity(v, T, c, path, ord) ==
    IF Implements(T, "ParseAny") THEN Invoke("ParseAny", T, c, v, path)
    ELSE IF isPrimitive(v.t.kind) THEN parsePrimitive(v, T, c, path)
    ELSE IF v.t.kind = "map" THEN parseMap(v, T, c, path, ord)
    ELSE IF v.t.kind = "slice" THEN parseSlice(v, T, c, path, ord)
    ELSE Res(<<Msg("unsupported kinds")>>, c, <<>>, FALSE)

\* parseNonNil with the identity fast path ahead of the ParseAny test
parseNonNil_IdentityFirst(v, T, c, path, ord) ==
    IF v.t = T THEN Ok(v, <<>>)
    ELSE IF Implements(T, "ParseAny") THEN Invoke("ParseAny", T, c, v, path)
    ELSE IF isPrimitive(v.t.kind) THEN parsePrimitive(v, T, c, path)
    ELSE IF v.t.kind = "map" THEN parseMap(v, T, c, path, ord)
    ELSE IF v.t.kind = "slice" THEN parseSlice(v, T, c, path, ord)
    ELSE Res(<<Msg("unsupported kinds")>>, c, <<>>, FALSE)

\* kaeru.go:164-185: a valid input v, the target T already unwrapped
parseNonNil(v, T, c, path, ord) ==
    IF Implements(T, "ParseAny") THEN Invoke("ParseAny", T, c, v, path)
    ELSE IF v.t = T THEN Ok(v, <<>>)                  \* outVal.Set(inVal)
    ELSE IF isPrimitive(v.t.kind) THEN parsePrimitive(v, T, c, path)
    ELSE IF v.t.kind = "map" THEN parseMap(v, T, c, path, ord)
    ELSE IF v.t.kind = "slice" THEN parseSlice(v, T, c, path, ord)
    ELSE Res(<<Msg("unsupported kinds")>>, c, <<>>, FALSE)

\* kaeru.go:124-186.  A pointer target is allocated when nil and the
\* conversion goes on against the pointee, so the target afterwards is a
\* pointer to whatever the pointee became.
parseValue(inVal, ty, cur, path, ord) ==
    IF inVal.t.kind \in {"array", "chan", "func", "ptr", "struct", "unsafeptr"}
    THEN Panic(cur, <<>>)
    ELSE
      LET v == IF inVal.t.kind = "interface"
               THEN IF inVal.l = <<>> THEN Nil ELSE inVal.l[1]
               ELSE inVal
          isPtr == ty.kind = "ptr"
          T == IF isPtr THEN ty.elem[1] ELSE ty
          c == IF ~isPtr THEN cur
               ELSE IF cur.l = <<>> THEN Zero(T) ELSE cur.l[1]
          required == ~isPtr
          r == IF IsNil(v) THEN parseNil(T, c, required, path)
               ELSE parseNonNil(v, T, c, path, ord)
      IN  IF isPtr THEN [r EXCEPT !.val = SeqV(ty, <<r.val>>)] ELSE r

\* kaeru.go:86-99.  output is a non-nil *T ("ptr"), a nil *T ("nilptr":
\* Elem() of it is the zero Value, not settable, and parseValue panics) or
\* not a pointer ("value").
Parse(in, mode, ty, cur, ord) ==
    IF mode = "value" THEN Res(<<Msg("output must be a pointer")>>, cur, <<>>, FALSE)
    ELSE IF mode = "nilptr" THEN Panic(cur, <<>>)
    ELSE parseValue(in, ty, cur, <<>>, ord)

----------------------------------------------------------------------------
(* The target types of the model: the shapes of kaeru_test.go (named       *)
(* primitives with hooks, structs with tagged, unexported, pointer and     *)
(* nested fields, slices, arrays, maps) and the hook combinations the      *)
(* dispatch distinguishes.                                                 *)

NameT == Named("Name", "string", {"ParseString"})
UpvotesT == Named("Upvotes", "int", {"ParseFloat64"})
LimitT == Named("Limit", "int", {"SetDefault"})
QuotaT == Named("Quota", "int", {"SetDefault", "ParseFloat64"})
RawT == Named("Raw", "string", {"ParseAny"})
RawDT == Named("RawD", "string", {"ParseAny", "ParseString", "SetDefault"})
TimeT == StructT("Time", {}, <<Field("sec", "", Prim("int64"), FALSE)>>)

PrimTargets ==
    {StringT, Prim("bool"), Prim("int"), Prim("int8"), Prim("uint8"),
     Prim("float64"), AnyT, NameT, UpvotesT, LimitT, QuotaT, RawT, RawDT,
     PtrTo(StringT), PtrTo(NameT), PtrTo(LimitT), PtrTo(RawDT)}

\* the numeric hooks of kaeru.go:18-64, and ParseUint, which kaeru.go does
\* not declare but a target type may
NumHooks ==
    {"ParseInt8", "ParseInt16", "ParseInt32", "ParseInt64", "ParseInt",
     "ParseUint8", "ParseUint16", "ParseUint32", "ParseUint64", "ParseUint",
     "ParseFloat32", "ParseFloat64"}

\* a named int64 for every set of at most two numeric hooks
NumTargets ==
    {Named("Num", "int64", h) : h \in {x \in SUBSET NumHooks : Cardinality(x) <= 2}}

LabelsT(hooks) == NamedSlice("Labels", NameT, hooks)
\* a named array type that takes lists over with a ParseSlice hook
PairT == Ty("array", "Pair", {"ParseSlice"}, <<NameT>>, <<>>, ArrCap, <<>>)

ListTargets ==
    {SliceString, SliceOf(NameT), SliceAny, SliceOf(Prim("uint8")),
     SliceOf(PtrTo(NameT)), PtrTo(SliceOf(NameT)), SliceOf(RawT),
     ArrayOf(ArrCap, NameT), ArrayOf(ArrCap, StringT),
     ArrayOf(ArrCap, PtrTo(StringT)), ArrayOf(ArrCap, LimitT), PairT,
     LabelsT({}), LabelsT({"ParseSlice"}), LabelsT({"ParseStringSlice"}),
     LabelsT({"ParseSlice", "ParseStringSlice"}), LabelsT({"ParseAny"})}

UserT == StructT("User", {}, <<Field("Username", "", NameT, TRUE)>>)
ItemT ==
    StructT("Item", {},
        <<Field("Title", "title", NameT, TRUE),
          Field("secret", "", StringT, FALSE),
          Field("Note", "", PtrTo(StringT), TRUE),
          Field("Limit", "", LimitT, TRUE),
          Field("Tail", "", NameT, TRUE)>>)
NestT ==
    StructT("Nest", {},
        <<Field("Poster", "", UserT, TRUE), Field("Tail", "", NameT, TRUE)>>)
MetadataT(hooks) == NamedMap("Metadata", StringT, StringT, hooks)

MapTargets ==
    {ItemT, NestT, UserT, PtrTo(ItemT),
     MapStringString, MapStringAny, MapOf(StringT, NameT), MapOf(NameT, StringT),
     MetadataT({}), MetadataT({"ParseMap"}), MetadataT({"ParseStringMap"}),
     PtrTo(MetadataT({}))}

\* a target the caller filled before the call
RECURSIVE Populated(_)
Populated(ty) ==
    CASE ty.kind = "bool" -> BoolV(ty, TRUE)
      [] ty.kind \in NumericKinds -> NumV(ty, 5)
      [] ty.kind = "string" -> StrV(ty, "old")
      [] ty.kind = "array" -> SeqV(ty, [i \in 1..ty.len |-> Populated(ty.elem[1])])
      [] ty.kind = "struct" ->
            SeqV(ty, [i \in 1..Len(ty.fields) |-> Populated(ty.fields[i].type)])
      [] ty.kind = "map" -> MapV(ty, {[k |-> "old", v |-> Populated(ty.elem[1])]})
      [] ty.kind = "interface" -> SeqV(ty, <<StrV(StringT, "old")>>)
      [] OTHER -> SeqV(ty, <<Populated(ty.elem[1])>>)    \* slice, pointer

----------------------------------------------------------------------------
(* The inputs of the model.                                                *)

\* a value held in an interface (an element of a []any, of a map[string]any)
Box(v) == SeqV(AnyT, <<v>>)
NilIface == SeqV(AnyT, <<>>)
Float(n2) == NumV(Prim("float64"), n2)
Str(s) == StrV(StringT, s)

PrimInputs ==
    {Nil, Str("ab"), Str(""), StrV(NameT, "ab"), StrV(NameT, ""),
     StrV(RawT, "ab"), StrV(RawDT, ""), BoolV(Prim("bool"), TRUE),
     Float(0), Float(2), Float(3), NumV(Prim("int"), 1), NumV(Prim("int"), 300),
     NumV(Prim("int8"), 1), NumV(Prim("uint8"), 1), NumV(UpvotesT, 1),
     NumV(QuotaT, 0)}

NumInputs == {NumV(Prim(k), n) : k \in NumericKinds, n \in {0, 1}}

\* every sequence over S of length at most n
SeqsUpTo(S, n) == UNION {[1..k -> S] : k \in 0..n}

ListInputs ==
    {SeqV(SliceAny, l) :
        l \in SeqsUpTo({Box(Str("ab")), Box(Str("")), NilIface}, MaxLen)}
    \cup {SeqV(SliceString, l) : l \in SeqsUpTo({Str("ab"), Str("")}, MaxLen)}
    \cup {SeqV(SliceOf(Prim("uint8")), l) :
            l \in SeqsUpTo({NumV(Prim("uint8"), 1)}, MaxLen)}
    \cup {SeqV(LabelsT(h), l) :
            h \in {{}, {"ParseSlice"}, {"ParseAny"}},
            l \in SeqsUpTo({StrV(NameT, "")}, 1)}

MapKeyUniverse == <<"title", "Title", "Note", "Limit", "Tail", "Poster", "Username">>
TopKeys == {"title", "Title", "Note", "Limit", "Tail", "Poster"}

UserIn(s) == MapV(MapStringAny, {[k |-> "Username", v |-> Box(Str(s))]})

\* the two values a key of an input map[string]any takes in the model
AnyValue(k, which) ==
    CASE k = "title" -> IF which = 1 THEN Box(Str("ab")) ELSE Box(Str(""))
      [] k = "Title" -> IF which = 1 THEN Box(Str("cd")) ELSE Box(Float(2))
      [] k = "Note" -> IF which = 1 THEN Box(Str("ab")) ELSE NilIface
      [] k = "Limit" -> IF which = 1 THEN Box(Float(3)) ELSE NilIface
      [] k = "Tail" -> IF which = 1 THEN Box(Str("cd")) ELSE Box(Str(""))
      [] k = "Poster" -> IF which = 1 THEN Box(UserIn("ab")) ELSE Box(UserIn(""))

KeySets == {S \in SUBSET TopKeys : Cardinality(S) <= MaxKeys}

MapInputs ==
    UNION {{MapV(MapStringAny, {[k |-> k, v |-> AnyValue(k, f[k])] : k \in S}) :
                f \in [S -> {1, 2}]} : S \in KeySets}
    \cup UNION {{MapV(MapStringString,
                      {[k |-> k, v |-> Str(IF f[k] = 1 THEN "ab" ELSE "")] : k \in S}) :
                f \in [S -> {1, 2}]} : S \in {X \in KeySets : X \subseteq {"title", "Tail", "Note"}}}
    \cup {MapV(MetadataT(h), {[k |-> "Tail", v |-> Str("")]}) :
                h \in {{}, {"ParseMap"}}}
    \cup {MapV(MapOf(NameT, StringT), {[k |-> "title", v |-> Str("ab")]})}

CrossInputs ==
    {Nil, Str("ab"), Float(3), NumV(Prim("int"), 300),
     SeqV(SliceAny, <<Box(Str("ab"))>>), SeqV(SliceAny, <<Box(SeqV(TimeT, <<NumV(Prim("int64"), 1)>>))>>),
     MapV(MapStringAny, {[k |-> "title", v |-> Box(Str("ab"))]}),
     SeqV(TimeT, <<NumV(Prim("int64"), 1)>>)}

AllTargets == PrimTargets \cup NumTargets \cup ListTargets \cup MapTargets \cup {TimeT}

Scenario(in, ty, cur, mode) == [in |-> in, ty |-> ty, cur |-> cur, mode |-> mode]

Priors(ty) == {Zero(ty), Populated(ty)}

Family(Ins, Tys) ==
    UNION {{Scenario(in, ty, cur, "ptr") : in \in Ins, cur \in Priors(ty)} : ty \in Tys}

Scenarios ==
    Family(PrimInputs, PrimTargets)
    \cup Family(ListInputs, ListTargets)
    \cup Family(MapInputs, MapTargets)
    \cup {Scenario(in, ty, Zero(ty), "ptr") : in \in NumInputs, ty \in NumTargets}
    \cup {Scenario(in, ty, Zero(ty), mode) :
            in \in CrossInputs, ty \in AllTargets, mode \in {"ptr", "nilptr", "value"}}

\* the values encoding/json decodes into an `any`: nil, bool, float64,
\* string, []any and map[string]any of such values
RECURSIVE IsJSON(_)
IsJSON(v) ==
    \/ IsNil(v)
    \/ v.t \in {Prim("bool"), Prim("float64"), StringT}
    \/ v.t = SliceAny /\ \A i \in 1..Len(v.l) :
            IsJSON(IF v.l[i].l = <<>> THEN Nil ELSE v.l[i].l[1])
    \/ v.t = MapStringAny /\ \A e \in v.m :
            IsJSON(IF e.v.l = <<>> THEN Nil ELSE e.v.l[1])

\* every ordering of a finite set, as sequences
RECURSIVE Perms(_)
Perms(S) ==
    IF S = {} THEN {<<>>}
    ELSE UNION {{<<x>> \o p : p \in Perms(S \ {x})} : x \in S}

\* the orders MapKeys may list the keys in: any order of the input map's
\* own keys; the keys of nested maps (one key each in the model) follow
Orders(in) ==
    LET top == IF in.t.kind = "map" THEN {e.k : e \in in.m} ELSE {}
        rest == SelectSeq(MapKeyUniverse, LAMBDA k : k \notin top)
    IN  {p \o rest : p \in Perms(top)}

----------------------------------------------------------------------------
(* The state machine: a caller holding an input and a target calls one of  *)
(* the entry points once.                                                  *)

Init ==
    \E sc \in Scenarios :
        /\ input = sc.in
        /\ outType = sc.ty
        /\ outMode = sc.mode
        /\ out = sc.cur
        /\ before = sc.cur
        /\ err = <<>>
        /\ calls = <<>>
        /\ panicked = FALSE
        /\ keyOrder = <<>>
        /\ pc = "ready"

Return(r, ord) ==
    /\ out' = r.val
    /\ keyOrder' = ord
    /\ err' = r.err
    /\ calls' = r.calls
    /\ panicked' = r.panic
    /\ pc' = "done"
    /\ UNCHANGED <<input, outType, outMode, before>>

\* kaeru.go:86-99
DoParse ==
    /\ pc = "ready"
    /\ \E ord \in Orders(input) :
            Return(Parse(input, outMode, outType, out, ord), ord)

JsonError == <<Msg("json: cannot decode")>>

\* kaeru.go:101-122, ParseJson and ParseJsonBytes: the bytes either fail to
\* decode, and the decoder's error is returned with the target untouched,
\* or decode to the value `input`, which goes to Parse
DoParseJson ==
    /\ pc = "ready"
    /\ \/ Return(Res(JsonError, out, <<>>, FALSE), <<>>)
       \/ /\ IsJSON(input)
          /\ \E ord \in Orders(input) :
                Return(Parse(input, outMode, outType, out, ord), ord)

Next == DoParse \/ DoParseJson

Spec == Init /\ [][Next]_vars

----------------------------------------------------------------------------
(* Vocabulary of the properties.                                           *)

\* the call reached parseValue (the bytes, if any, decoded; output was a
\* non-nil pointer) with an input of a kind parseValue accepts
Ran ==
    /\ pc = "done" /\ err # JsonError /\ outMode = "ptr"
    /\ input.t.kind \notin {"array", "chan", "func", "ptr", "struct", "unsafeptr"}

\* the target type after the pointer unwrap, and the value it designates (a
\* nil pointer designates no value: the zero value stands for it)
Unwrapped(ty) == IF ty.kind = "ptr" THEN ty.elem[1] ELSE ty
Pointee(ty, val) ==
    IF ty.kind # "ptr" THEN val
    ELSE IF val.l = <<>> THEN Zero(ty.elem[1]) ELSE val.l[1]
TopT == Unwrapped(outType)

\* the value an interface holds (the value itself when it is not in one)
Unbox(v) ==
    IF v.t.kind # "interface" THEN v
    ELSE IF v.l = <<>> THEN Nil ELSE v.l[1]

CallsAt(path) == SelectSeq(calls, LAMBDA c : c.path = path)
CallsBelow(seg) == SelectSeq(calls, LAMBDA c : c.path # <<>> /\ c.path[1] = seg)

FieldKey(f) == IF f.tag # "" THEN f.tag ELSE f.name
FieldIndex(ty, name) == CHOOSE i \in 1..Len(ty.fields) : ty.fields[i].name = name

----------------------------------------------------------------------------
\* C1: absence rule.  When the input is absent and the unwrapped target type
\* implements SetDefault, the conversion returns no error and invokes
\* SetDefault exactly once and no other hook; when the input is absent and
\* the target is required (no pointer) and has no SetDefault, the conversion
\* returns an error.  Stated for the root of the call and for the fields of a
\* struct (a missing key or a JSON null under the field's key).
C1_AbsenceRule ==
    /\ (Ran /\ IsNil(input) /\ Implements(TopT, "SetDefault")) =>
            /\ err = <<>> /\ ~panicked
            /\ calls = <<Call("SetDefault", <<>>, Nil)>>
    /\ (Ran /\ IsNil(input) /\ outType.kind # "ptr" /\ ~Implements(outType, "SetDefault")) =>
            /\ err # <<>> /\ calls = <<>>
    /\ (Ran /\ TopT = ItemT /\ input.t = MapStringAny) =>
            /\ (err = <<>> /\ IsNil(Unbox(MapIndex(input, "Limit")))) =>
                    CallsAt(<<"Limit">>) = <<Call("SetDefault", <<"Limit">>, Nil)>>
            /\ IsNil(Unbox(MapIndex(input, "title"))) =>
                    /\ err = WrapErr("field", "title", <<Msg("inVal is nil but must be set")>>)
                    /\ calls = <<>>

C1_Witness ==
    /\ Ran /\ IsNil(input) /\ outType = LimitT /\ before = Populated(LimitT)
    /\ err = <<>> /\ Len(calls) = 1 /\ out = NumV(LimitT, 10)

\* C2: optional absence.  Converting an absent input into a pointer target
\* whose pointee type has no SetDefault returns no error and leaves a nil
\* pointer nil (no pointee is allocated), at the root and for a struct field
\* whose key is missing.
C2_OptionalAbsenceStaysNil ==
    /\ (Ran /\ IsNil(input) /\ outType.kind = "ptr"
            /\ ~Implements(TopT, "SetDefault") /\ before.l = <<>>) =>
            (err = <<>> /\ out.l = <<>>)
    /\ (Ran /\ outType = ItemT /\ input.t = MapStringAny /\ err = <<>>
            /\ IsNil(MapIndex(input, "Note")) /\ before.l[3].l = <<>>) =>
            out.l[3].l = <<>>

C2_Witness ==
    /\ Ran /\ outType = ItemT /\ input.t = MapStringAny /\ err = <<>>
    /\ IsNil(MapIndex(input, "Note")) /\ before.l[3].l = <<>>
    /\ out.l[3] = SeqV(PtrTo(StringT), <<Str("")>>)

\* what the conversion of the value under a field's key, alone, makes of the
\* field
FieldAlone(ty, val, i) ==
    parseValue(MapIndex(input, FieldKey(ty.fields[i])), ty.fields[i].type,
               val.l[i], <<ty.fields[i].name>>, keyOrder)

\* C3: struct field mapping.  Converting a map into a struct sets every
\* settable field from the value under its `parse` tag (or its name when it
\* has no tag) and nothing else: keys that match no field cause no error, a
\* missing key leaves a pointer field at its zero value without error, a
\* missing key for a required field without SetDefault is an error, and
\* unexported fields are skipped.
C3_StructFieldMapping ==
    (Ran /\ outType \in {ItemT, NestT, UserT} /\ input.t = MapStringAny) =>
        /\ (\E i \in 1..Len(outType.fields) :
                /\ outType.fields[i].exported
                /\ outType.fields[i].type.kind # "ptr"
                /\ ~Implements(outType.fields[i].type, "SetDefault")
                /\ IsNil(Unbox(MapIndex(input, FieldKey(outType.fields[i])))))
            => err # <<>>
        /\ err = <<>> =>
            \A i \in 1..Len(outType.fields) :
                LET f == outType.fields[i]
                    found == MapIndex(input, FieldKey(f))
                IN  /\ ~f.exported => out.l[i] = before.l[i]
                    /\ (f.exported /\ f.type.kind = "ptr" /\ IsNil(found)) =>
                            out.l[i] = before.l[i]
                    /\ (f.exported /\ ~IsNil(found)) =>
                            out.l[i] = FieldAlone(outType, before, i).val
        /\ (\A i \in 1..Len(outType.fields) :
                outType.fields[i].exported => FieldAlone(outType, before, i).err = <<>>)
            => err = <<>>

C3_Witness ==
    /\ Ran /\ outType = ItemT /\ input.t = MapStringAny /\ err = <<>>
    /\ before = Zero(ItemT)
    /\ ~IsNil(MapIndex(input, "Title")) /\ IsNil(MapIndex(input, "Note"))
    /\ out.l[1] = StrV(NameT, "ab") /\ out.l[2] = before.l[2]
    /\ out.l[3] # before.l[3]

\* the widening chains of the claim: those of kaeru.go:216-278 with the
\* unsigned chain ending at the generic ParseUint, as the signed chain ends at
\* ParseInt
ClaimedChain(kind) ==
    CASE kind \in UnsignedKinds -> HookChain(kind) \o <<"ParseUint">>
      [] OTHER -> HookChain(kind)

\* C4: narrowest-hook preference.  For a numeric input the hook invoked is
\* the first one the target implements along the widening chain from the
\* input's own width (int8, int16, int32, int64, int; uint8, uint16, uint32,
\* uint64, uint; float32, float64), and it is the only hook invoked: no
\* narrower hook and no hook of another family.
C4_NarrowestHook ==
    (Ran /\ outType \in NumTargets /\ input.t.kind \in NumericKinds) =>
        LET has(h) == Implements(outType, h)
            found == SelectSeq(ClaimedChain(input.t.kind), has)
        IN  IF found = <<>> THEN calls = <<>>
            ELSE Len(calls) = 1 /\ calls[1].hook = found[1]

C4_Witness ==
    /\ Ran /\ outType = Named("Num", "int64", {"ParseUint"})
    /\ input = NumV(Prim("uint8"), 1)
    /\ calls = <<>> /\ err = <<>> /\ out = NumV(outType, 1)

\* C5: list capacity overflow.  Converting a list longer than the capacity
\* of a fixed-size array target returns the capacity error, mutates no
\* element of the array and invokes no hook.  The array type has no hooks of
\* its own (a ParseAny or whole-list hook of the array type takes the
\* conversion over before parseSliceToArray).
C5_CapacityOverflow ==
    (Ran /\ input.t.kind = "slice" /\ outType.kind = "array"
         /\ outType.hooks = {} /\ Len(input.l) > outType.len) =>
        /\ err = <<Msg("input slice is longer than output array")>>
        /\ out = before
        /\ calls = <<>>
        /\ ~panicked

C5_Witness ==
    /\ Ran /\ outType = ArrayOf(ArrCap, NameT) /\ input.t = SliceAny
    /\ Len(input.l) > ArrCap /\ ~IsNil(Unbox(input.l[1]))
    /\ before = Populated(outType)
    /\ err # <<>> /\ out = before

\* C7 as claimed: identity.  For every non-absent primitive, list or map
\* input whose dynamic type is exactly the target's static type, Parse
\* succeeds and the target afterwards equals the input.
C7_Identity_Claimed ==
    (Ran /\ ~IsNil(input) /\ input.t = outType) =>
        (err = <<>> /\ ~panicked /\ out = input)

\* C7, amended: the same, for a target type that does not implement ParseAny
\* (ParseAny is tried before the identity fast path); no other hook of the
\* target is invoked.
C7_Identity ==
    (Ran /\ ~IsNil(input) /\ input.t = outType /\ ~Implements(outType, "ParseAny")) =>
        (err = <<>> /\ ~panicked /\ out = input /\ calls = <<>>)

C7_Witness ==
    /\ Ran /\ input = StrV(NameT, "") /\ outType = NameT
    /\ before = Populated(NameT)
    /\ err = <<>> /\ out = input /\ calls = <<>>

\* C8: any-hook short-circuit.  For a non-absent input and an unwrapped
\* target type implementing ParseAny, ParseAny is invoked exactly once with
\* the input's dynamic content and its result is the result of the
\* conversion; nothing else happens at that node (no identity copy, no other
\* hook, no plain conversion, no recursion).  For an absent input ParseAny is
\* not invoked.  Stated for the root and for the elements of a slice target.
C8_ParseAnyShortCircuit ==
    /\ (Ran /\ ~IsNil(input) /\ Implements(TopT, "ParseAny")) =>
            LET hook == Invoke("ParseAny", TopT, Pointee(outType, before), input, <<>>)
            IN  /\ calls = <<Call("ParseAny", <<>>, input)>>
                /\ err = hook.err
                /\ Pointee(outType, out) = hook.val
                /\ ~panicked
    /\ (Ran /\ IsNil(input)) => \A i \in 1..Len(calls) : calls[i].hook # "ParseAny"
    /\ (Ran /\ outType = SliceOf(RawT) /\ input.t.kind = "slice" /\ err = <<>>) =>
            /\ Len(calls) = Len(input.l)
            /\ \A i \in 1..Len(calls) :
                    calls[i] = Call("ParseAny", <<ToString(i - 1)>>, Unbox(input.l[i]))

C8_Witness ==
    /\ Ran /\ input = StrV(RawT, "ab") /\ outType = RawT /\ before = Populated(RawT)
    /\ calls = <<Call("ParseAny", <<>>, input)>> /\ err = <<>>

\* C9: whole-list hook.  For a list input of any element type and a target
\* implementing a whole-list hook, the conversion never crashes and returns
\* the hook's result: a []string input goes to ParseStringSlice when the
\* target implements it, and every other case with ParseSlice implemented
\* goes to ParseSlice.
C9_WholeListHook ==
    (Ran /\ input.t.kind = "slice" /\ input.t # TopT
         /\ ~Implements(TopT, "ParseAny")
         /\ (Implements(TopT, "ParseSlice") \/ Implements(TopT, "ParseStringSlice"))) =>
        /\ ~panicked
        /\ (input.t = SliceString /\ Implements(TopT, "ParseStringSlice")) =>
                calls = <<Call("ParseStringSlice", <<>>, input)>>
        /\ (~(input.t = SliceString /\ Implements(TopT, "ParseStringSlice"))
                /\ Implements(TopT, "ParseSlice")) =>
                (Len(calls) = 1 /\ calls[1].hook = "ParseSlice")

C9_Witness ==
    /\ Ran /\ input = SeqV(SliceOf(Prim("uint8")), <<NumV(Prim("uint8"), 1)>>)
    /\ outType = LabelsT({"ParseSlice"})
    /\ panicked /\ calls = <<>>

\* The conversions of the parts of a composite taken alone, the yardstick of
\* C6 and C10: field i of a struct, element i of a list (1-based), the entry
\* under key k of a map.
Cur0 == Pointee(outType, before)
Result == Pointee(outType, out)

ElemAlone(i) ==
    parseValue(IF i <= Len(input.l) THEN input.l[i] ELSE Nil, TopT.elem[1],
               IF TopT.kind = "array" THEN Cur0.l[i] ELSE Zero(TopT.elem[1]),
               <<ToString(i - 1)>>, keyOrder)
KeyAlone(k) ==
    parseValue(StrV(input.t.key[1], k), TopT.key[1], Zero(TopT.key[1]),
               <<k, "(key)">>, keyOrder)
ValueAlone(k) ==
    parseValue(MapIndex(input, k), TopT.elem[1], Zero(TopT.elem[1]), <<k>>, keyOrder)

Stops(r) == r.err # <<>> \/ r.panic
FieldStops(i) == TopT.fields[i].exported /\ Stops(FieldAlone(TopT, Cur0, i))
FieldCalls(i) == IF TopT.fields[i].exported THEN FieldAlone(TopT, Cur0, i).calls ELSE <<>>
EntryStops(k) == Stops(KeyAlone(k)) \/ Stops(ValueAlone(k))
EntryCalls(k) ==
    KeyAlone(k).calls \o (IF Stops(KeyAlone(k)) THEN <<>> ELSE ValueAlone(k).calls)

\* the hook invocations of parts 1..n, in order
RECURSIVE CallsOfParts(_, _)
CallsOfParts(PartCalls(_), n) ==
    IF n = 0 THEN <<>> ELSE CallsOfParts(PartCalls, n - 1) \o PartCalls(n)

\* Of n parts converted in order, the call stops at the first one whose
\* conversion fails: the hooks invoked are those of the parts up to it, and
\* the call returns an error (or panics); without a failing part it succeeds
\* having invoked the hooks of all parts.
FirstFailureAborts(n, PartStops(_), PartCalls(_)) ==
    IF \E i \in 1..n : PartStops(i)
    THEN LET first == CHOOSE i \in 1..n :
                        PartStops(i) /\ \A j \in 1..(i - 1) : ~PartStops(j)
         IN  /\ err # <<>> \/ panicked
             /\ calls = CallsOfParts(PartCalls, first)
    ELSE /\ err = <<>> /\ ~panicked
         /\ calls = CallsOfParts(PartCalls, n)

FirstStop(n, PartStops(_)) ==
    CHOOSE i \in 1..n : PartStops(i) /\ \A j \in 1..(i - 1) : ~PartStops(j)

StructCase ==
    Ran /\ TopT.kind = "struct" /\ TopT.hooks = {}
        /\ input.t \in {MapStringAny, MapStringString}
ListCase ==
    Ran /\ input.t.kind = "slice" /\ TopT.kind \in {"slice", "array"}
        /\ TopT.hooks = {} /\ input.t # TopT
        /\ (TopT.kind = "array" => Len(input.l) <= TopT.len)
MapCase ==
    Ran /\ input.t.kind = "map" /\ TopT.kind = "map"
        /\ TopT.hooks = {} /\ input.t # TopT

\* C6: first error aborts.  Struct fields are converted in declaration
\* order, list and array elements in index order, map entries in the order
\* the keys are listed; as soon as one nested conversion returns an error the
\* whole call returns an error, and no field, element or entry after the
\* failing one is converted, mutated or has a hook (SetDefault included)
\* invoked.
C6_FirstErrorAborts ==
    /\ StructCase =>
        /\ FirstFailureAborts(Len(TopT.fields), FieldStops, FieldCalls)
        /\ (\E i \in 1..Len(TopT.fields) : FieldStops(i)) =>
            LET first == FirstStop(Len(TopT.fields), FieldStops)
            IN  /\ err = WrapErr("field", FieldKey(TopT.fields[first]),
                                 FieldAlone(TopT, Cur0, first).err)
                /\ \A j \in (first + 1)..Len(TopT.fields) :
                        /\ Result.l[j] = Cur0.l[j]
                        /\ CallsBelow(TopT.fields[j].name) = <<>>
    /\ ListCase =>
        LET n == IF TopT.kind = "array" THEN TopT.len ELSE Len(input.l)
            ElemStops(i) == Stops(ElemAlone(i))
            ElemCalls(i) == ElemAlone(i).calls
        IN  /\ FirstFailureAborts(n, ElemStops, ElemCalls)
            /\ (TopT.kind = "array" /\ \E i \in 1..n : ElemStops(i)) =>
                    \A j \in (FirstStop(n, ElemStops) + 1)..n :
                        Result.l[j] = Cur0.l[j]
    /\ MapCase =>
        LET keys == MapKeys(input, keyOrder)
            KStops(i) == EntryStops(keys[i])
            KCalls(i) == EntryCalls(keys[i])
        IN  FirstFailureAborts(Len(keys), KStops, KCalls)

C6_Witness ==
    /\ Ran /\ outType = ItemT /\ input.t = MapStringAny /\ before = Zero(ItemT)
    /\ MapIndex(input, "title") = Box(Str(""))
    /\ MapIndex(input, "Tail") = Box(Str("cd"))
    /\ err = WrapErr("field", "title", <<Msg("rejected by hook")>>)
    /\ calls = <<Call("ParseString", <<"Title">>, Str(""))>>
    /\ out = before

\* C10: all-or-nothing for map and list targets.  A map-to-map or
\* list-to-list conversion builds its result in a fresh map or slice and
\* assigns it to the target only after every entry or element converted: when
\* a key, value or element conversion fails the target holds the value it had
\* before the call, and on success it holds exactly the entries derived from
\* the input (what it held before is replaced, not merged).
C10_AllOrNothing ==
    /\ MapCase =>
        /\ (err # <<>> \/ panicked) => Result = Cur0
        /\ (err = <<>> /\ ~panicked) =>
            /\ Result.t = TopT
            /\ \A e \in Result.m : \E i \in input.m :
                    KeyAlone(i.k).val.s = e.k /\ ValueAlone(i.k).val = e.v
            /\ \A i \in input.m : \E e \in Result.m : KeyAlone(i.k).val.s = e.k
    /\ (ListCase /\ TopT.kind = "slice") =>
        /\ (err # <<>> \/ panicked) => Result = Cur0
        /\ (err = <<>> /\ ~panicked) =>
            Result = SeqV(TopT, [i \in 1..Len(input.l) |-> ElemAlone(i).val])

C10_Witness ==
    /\ Ran /\ outType = MapOf(StringT, NameT) /\ input.t = MapStringAny
    /\ before = Populated(outType)
    /\ err # <<>> /\ Len(calls) = 2 /\ calls[1].arg = Str("ab")
    /\ out = before

====
